---- MODULE Spec2Model ----
(***************************************************************************)
(* Model of src/src/aussiebb_carbon.py: the Carbon client, its per-key     *)
(* file cache (cache_store / cache_get), its login session (do_login,      *)
(* do_logout, get_access_token), the cached resources (get_customer,       *)
(* get_all_services, get_services_by_tag, get_services_by_tags,            *)
(* get_service), the lookups in the table of all services and the          *)
(* normalisation of service lists (_process_services).                     *)
(*                                                                         *)
(* One client object is alive at a time; Construct models a later process  *)
(* building a new Carbon object on the same cache location.  time() is a   *)
(* discrete clock, and one operation runs at one instant of it.            *)
(*                                                                         *)
(* Spec is the client with its session and the list of all services;       *)
(* SpecTags, SpecRemote, SpecLookup, SpecCache and SpecFlatten are the     *)
(* same client used for one part of its interface each.                    *)
(***************************************************************************)
EXTENDS Integers, Sequences, FiniteSets, TLC

(* ------------------------------ bounds -------------------------------- *)

\* Last instant of the clock (time() takes the values 1..MaxTime).
MaxTime == 3

\* Largest 'expiresIn' duration the login endpoint hands out.
MaxExpiresIn == 2

\* Largest max_age / cache_max_age argument a caller passes.
MaxAge == 2

(* ------------------------------ values -------------------------------- *)

\* Python's None.
None == [none |-> TRUE]

\* A caller-chosen default_value that is not None.
Sentinel == [sentinel |-> TRUE]

\* max_age=<n> (max_age=None is None).
Secs(n) == [secs |-> n]

\* A file carbon_<key>.cache that does not exist.
Absent == [absent |-> TRUE]

\* A file carbon_<key>.cache of size 0, as open('wb') leaves it until
\* pickle.dump writes.
Empty == [empty |-> TRUE]

\* A file carbon_<key>.cache holding bytes that are no complete pickle, as a
\* pickle.dump that stops half way leaves it.
Corrupt == [corrupt |-> TRUE]

\* The requests.Session object kept in self.session and pickled under
\* 'session_data'.
Session == [session |-> "requests.Session"]

\* The tags a caller asks for, and the tag lists.
Tags == {"a", "b", "a_b"}
TagLists == {<<"a", "b">>, <<"a_b">>}

\* '_'.join(...) of a list of strings.
RECURSIVE join(_, _)
join(sep, xs) ==
    IF xs = <<>> THEN ""
    ELSE IF Len(xs) = 1 THEN xs[1]
    ELSE xs[1] \o sep \o join(sep, Tail(xs))

\* Line 335: the cache key of get_services_by_tag.
tag_cache_name(tag) == "services_tag_" \o tag

\* Line 371: the cache key of get_services_by_tags.
tags_cache_name(tags) == "services_tags_" \o join("_", tags)

\* The service ids a caller asks for: 1 is a service of the customer, 3 is
\* the id of none.
ServiceIds == {1, 3}

\* Line 398: the cache key of get_service.
service_cache_name(service_id) == "service_" \o ToString(service_id)

\* The cache keys used by the modelled operations.
Keys ==
    {"login_response", "login_expiry", "session_data", "services", "customer"}
    \cup {service_cache_name(service_id) : service_id \in ServiceIds}
    \cup {tag_cache_name(tag) : tag \in Tags}
    \cup {tags_cache_name(tags) : tags \in TagLists}

\* A transport-level failure: requests raises instead of returning a Response.
TransportError == [transport |-> "failed"]

\* What an operation hands back: a returned value or a raised exception.
Returned(v) == [ret |-> v]
Raised(out) == "error" \in DOMAIN out

RequestException == [error |-> "requests.ConnectionError"]
KeyError == [error |-> "KeyError"]
IndexError == [error |-> "IndexError"]
UnpicklingError == [error |-> "pickle.UnpicklingError"]
KeyboardInterrupt == [error |-> "KeyboardInterrupt"]
AttributeError == [error |-> "AttributeError"]

\* Line 409: the exception text names the service id.
LookupError(service_id) == [error |-> "LookupError", service_id |-> service_id]

\* An error status that comes back as a value instead of an exception.
ConnectionError_returned(resp) == [ret |-> None]

\* The exception text of do_login / get_all_services carries the status code
\* and the reason of the response.
ConnectionError(resp) ==
    [error |-> "ConnectionError", status |-> resp.status, reason |-> resp.reason]

(* --------------------------- remote service --------------------------- *)

\* Responses of POST {base}/login at instant t.  The access token is
\* identified by the instant at which the server stops honouring it.
PostLoginResponses(t) ==
    {TransportError}
    \cup {[status |-> 401, reason |-> "Unauthorized"]}
    \cup {[status |-> 200, reason |-> "OK", expiresIn |-> e,
           accessToken |-> [exp |-> t + e]] : e \in 1..MaxExpiresIn}

\* Responses of DELETE {base}/login.
DeleteLoginResponses ==
    {TransportError,
     [status |-> 200, reason |-> "OK"],
     [status |-> 500, reason |-> "Internal Server Error"]}

\* Identifiers are strings over a small alphabet, kept as the sequence of
\* their characters so that str.upper() can be computed on them.
UpperChar(c) ==
    IF c = "a" THEN "A" ELSE IF c = "b" THEN "B" ELSE IF c = "l" THEN "L" ELSE c

\* str.upper()
upper(str) == [i \in 1..Len(str) |-> UpperChar(str[i])]

\* Nested service objects as the API returns them.  The two services carry
\* the same AVC and the same location in different letter case.
Svc1 == [id |-> 1, service_identifier |-> <<"A", "b">>,
         location_id |-> <<"L", "1">>,
         network |-> [ips |-> <<[ip |-> "10.0.0.1/32"]>>,
                      headend |-> [name |-> "x"]]]
Svc2 == [id |-> 2, service_identifier |-> <<"a", "B">>,
         location_id |-> <<"l", "1">>,
         network |-> [ips |-> <<>>, headend |-> [name |-> "y"]]]

\* The 'data' lists GET {base}/carbon/services may carry.
RawServices == {<<>>, <<Svc1>>, <<Svc1, Svc2>>}

\* Responses of GET {base}/carbon/services.
GetServicesResponses ==
    {TransportError}
    \cup {[status |-> 500, reason |-> "Internal Server Error"]}
    \cup {[status |-> 200, reason |-> "OK", data |-> raw] : raw \in RawServices}

\* The services the server holds under a tag when it holds any: Svc1 carries
\* every tag, Svc2 the tags other than "a".
TaggedServices(tag) == IF tag = "a" THEN <<Svc1>> ELSE <<Svc1, Svc2>>

\* Responses of GET {base}/carbon/services with filter[tags]=<tag>: an error
\* status, no rows, or the services under the tag.
GetTagResponses(tag) ==
    {[status |-> 500, reason |-> "Internal Server Error"]}
    \cup {[status |-> 200, reason |-> "OK", data |-> raw] :
             raw \in {<<>>, TaggedServices(tag)}}

\* The body of GET {base}/customer?v=2.
Customer == [id |-> 7, name |-> "wholesale customer"]

\* Responses of GET {base}/customer.
GetCustomerResponses ==
    {[status |-> 500, reason |-> "Internal Server Error"],
     [status |-> 200, reason |-> "OK", json |-> Customer]}

\* Responses of GET {base}/carbon/services/<service_id>: the detail of the
\* service or an error status for a service of the customer, 404 for an id
\* the server does not know, 401 for any id.
GetServiceResponses(service_id) ==
    {[status |-> 401, reason |-> "Unauthorized"]}
    \cup (IF service_id = Svc1.id
          THEN {[status |-> 200, reason |-> "OK", json |-> Svc1]}
          ELSE {[status |-> 404, reason |-> "Not Found"]})

\* The answer of an endpoint that is not asked.
NoAnswer == [unasked |-> TRUE]

\* One request as the transport saw it.
Request(method, endpoint, resp) ==
    [method |-> method, endpoint |-> endpoint, response |-> resp]

(* ------------------------------- state -------------------------------- *)

VARIABLES
    now,             \* time()
    disk,            \* cache_location: key -> Absent or [time, value]
    login_response,  \* self.login_response
    login_expiry,    \* self.login_expiry
    last             \* the last call on the client: what was called, when,
                     \* the requests it sent and what it handed back; nth
                     \* is 0 for the construction, 1 for the first call on
                     \* the object and 2 for every later one

vars == <<now, disk, login_response, login_expiry, last>>

Call(op, args, sent, out) ==
    [op |-> op, args |-> args, at |-> now, sent |-> sent, out |-> out,
     nth |-> IF last.nth = 0 THEN 1 ELSE 2]

(* ------------------------------- cache -------------------------------- *)

\* Lines 99 and 131: is_file() and st_size > 0.
has_data(file) == file \notin {Absent, Empty}

\* Line 101: pickle.load of the file of the key raises.
cache_store_raises(d, key) == d[key] = Corrupt

\* Lines 133 and 137: pickle.load of the file of the key raises, or that of
\* the file of 'login_expiry', which is read once the file of the key is
\* loaded.
cache_get_raises(d, key) ==
    \/ d[key] = Corrupt
    \/ has_data(d[key]) /\ key # "login_expiry" /\ d["login_expiry"] = Corrupt

\* cache_store where it does not raise: the file of the key is rewritten
\* with the value and time().
cache_store(d, t, key, value) ==
    [d EXCEPT ![key] = [time |-> t, value |-> value]]

\* cache_fresh with the boundary instant counted as fresh.
cache_fresh_inclusive(entry, t, max_age) ==
    max_age = None \/ entry.time + max_age.secs >= t

\* Line 146: the age test of cache_get.
cache_fresh(entry, t, max_age) ==
    max_age = None \/ entry.time + max_age.secs > t

RECURSIVE cache_get(_, _, _, _, _)
\* cache_auth_ok with the instant of expiry counted as logged in.
cache_auth_ok_inclusive(d, t, key) ==
    key = "login_expiry" \/ t <= cache_get(d, t, "login_expiry", 0, None)

\* Line 144: every key but 'login_expiry' is served only while time() is
\* before the persisted 'login_expiry'.
cache_auth_ok(d, t, key) ==
    key = "login_expiry" \/ t < cache_get(d, t, "login_expiry", 0, None)

\* cache_get where it does not raise: the stored value, or default_value on
\* a miss, on an entry older than max_age, or on a lapsed login.  No caller
\* stores None, so the final 'value is None' test is the miss path.
cache_get(d, t, key, default_value, max_age) ==
    IF has_data(d[key])
       /\ cache_auth_ok(d, t, key)
       /\ cache_fresh(d[key], t, max_age)
    THEN d[key].value
    ELSE default_value

\* get_session (use_cache=True): the cached session, or a new one that is
\* stored.  Yields the disk it leaves.
get_session(d, t) ==
    IF cache_get(d, t, "session_data", None, None) # None
    THEN d
    ELSE cache_store(d, t, "session_data", Session)

(* ------------------------------- login -------------------------------- *)

\* do_login_needed with the test of login_response inverted.
do_login_needed_inverted(lr, le, t) ==
    lr # None \/ t > le

\* Line 202: the condition under which do_login sends the login request.
do_login_needed(lr, le, t) ==
    lr = None /\ t > le

\* do_login with the store of 'session_data' moved out of the status test.
do_login_stores_session(lr, le, d, t, resp) ==
    IF do_login_needed(lr, le, t)
    THEN LET sent == <<Request("POST", "login", resp)>> IN
         IF resp = TransportError
         THEN [login_response |-> lr, login_expiry |-> le, disk |-> d,
               sent |-> sent, out |-> RequestException]
         ELSE IF resp.status = 200
         THEN LET d1 == cache_store(d, t, "login_response", resp)
                  expiry == t + resp.expiresIn
                  d2 == cache_store(d1, t, "login_expiry", expiry)
                  d3 == cache_store(d2, t, "session_data", Session)
              IN [login_response |-> resp, login_expiry |-> expiry,
                  disk |-> d3, sent |-> sent, out |-> Returned(resp)]
         ELSE [login_response |-> lr, login_expiry |-> le,
               disk |-> cache_store(d, t, "session_data", Session),
               sent |-> sent, out |-> ConnectionError(resp)]
    ELSE [login_response |-> lr, login_expiry |-> le, disk |-> d,
          sent |-> <<>>, out |-> Returned(lr)]

\* do_login on a client holding (lr, le) over disk d at instant t, the
\* login endpoint answering resp if asked.
do_login(lr, le, d, t, resp) ==
    IF do_login_needed(lr, le, t)
    THEN LET sent == <<Request("POST", "login", resp)>> IN
         IF resp = TransportError
         THEN [login_response |-> lr, login_expiry |-> le, disk |-> d,
               sent |-> sent, out |-> RequestException]
         ELSE IF resp.status = 200
         THEN LET d1 == cache_store(d, t, "login_response", resp)
                  expiry == t + resp.expiresIn
                  d2 == cache_store(d1, t, "login_expiry", expiry)
                  d3 == cache_store(d2, t, "session_data", Session)
              IN [login_response |-> resp, login_expiry |-> expiry,
                  disk |-> d3, sent |-> sent, out |-> Returned(resp)]
         ELSE [login_response |-> lr, login_expiry |-> le, disk |-> d,
               sent |-> sent, out |-> ConnectionError(resp)]
    ELSE [login_response |-> lr, login_expiry |-> le, disk |-> d,
          sent |-> <<>>, out |-> Returned(lr)]

\* The answers the login endpoint can give to a do_login: it is asked only
\* when line 202 lets the request through.
LoginAnswers(lr, le, t) ==
    IF do_login_needed(lr, le, t) THEN PostLoginResponses(t) ELSE {NoAnswer}

\* do_logout on a client holding (lr, le), the login endpoint answering
\* resp to the DELETE.  The cache files are not touched.
do_logout(lr, le, resp) ==
    LET sent == <<Request("DELETE", "login", resp)>> IN
    IF resp = TransportError
    THEN [login_response |-> lr, login_expiry |-> le,
          sent |-> sent, out |-> RequestException]
    ELSE [login_response |-> None, login_expiry |-> 0,
          sent |-> sent, out |-> Returned(resp)]

\* get_access_token: do_login(), then the 'accessToken' of
\* self.login_response.
get_access_token(lr, le, d, t, resp) ==
    LET r == do_login(lr, le, d, t, resp) IN
    IF Raised(r.out) THEN r
    ELSE IF r.login_response = None
    THEN [r EXCEPT !.out = AttributeError]
    ELSE [r EXCEPT !.out = Returned(r.login_response.accessToken)]

(* ------------------------------ services ------------------------------ *)

\* A pandas DataFrame: its rows in order, each a flat record.
DataFrame(rows) == [rows |-> rows]

\* The fields of r under add_prefix(p).
add_prefix(p, r) ==
    [k \in {p \o f : f \in DOMAIN r} |->
        r[CHOOSE f \in DOMAIN r : p \o f = k]]

\* row.assign(**cols): the columns of cols added to row, replacing columns
\* of the same name.
assign(row, cols) ==
    [k \in DOMAIN row \cup DOMAIN cols |->
        IF k \in DOMAIN cols THEN cols[k] ELSE row[k]]

\* row.drop([col])
drop(row, col) ==
    [k \in DOMAIN row \ {col} |-> row[k]]

\* A missing value of a frame.
NaN == [nan |-> TRUE]

\* The columns of a list of records.
columns(rows) == UNION {DOMAIN rows[i] : i \in 1..Len(rows)}

\* pd.DataFrame(list of dicts): every row has every column, NaN where its
\* dict has no such key.
pd_DataFrame(dicts) ==
    DataFrame([i \in 1..Len(dicts) |->
                 [c \in columns(dicts) |->
                    IF c \in DOMAIN dicts[i] THEN dicts[i][c] ELSE NaN]])

\* pd.Series(value): the items of a dict; a missing value gives one item
\* labelled 0.
pd_Series(value) == IF value = NaN THEN [c \in {"0"} |-> NaN] ELSE value

\* services[col].apply(pd.Series).add_prefix(prefix)
expand(services, col, prefix) ==
    pd_DataFrame([i \in 1..Len(services.rows) |->
                    add_prefix(prefix, pd_Series(services.rows[i][col]))])

\* services.assign(**other).drop([col], axis=1)
assign_drop(services, other, col) ==
    DataFrame([i \in 1..Len(services.rows) |->
                 drop(assign(services.rows[i], other.rows[i]), col)])

\* services['network'] raises KeyError when the frame has no such column,
\* as the frame of an empty list has.
process_services_raises(services) ==
    "network" \notin columns(services)

\* The body of _process_services, lines 280-293, on a list some record of
\* which carries 'network'.
process_services_frame(services) ==
    LET s0 == pd_DataFrame(services)
        s1 == assign_drop(s0, expand(s0, "network", "network_"), "network")
    IN IF "network_headend" \in columns(s1.rows)
       THEN assign_drop(s1, expand(s1, "network_headend", "headend_"),
                        "network_headend")
       ELSE s1

\* The frames of the lists the server sends, computed once.
ProcessedServices ==
    [services \in RawServices \cup {TaggedServices(tag) : tag \in Tags} |->
        process_services_frame(services)]

\* _process_services(services)
_process_services(services) ==
    IF services \in DOMAIN ProcessedServices
    THEN ProcessedServices[services]
    ELSE process_services_frame(services)

\* Records of other shapes the normalisation can be given: a network
\* without headend, the record {id: 1, network: {headend: {name: "x"}},
\* other: 2}, a record without network, and a record that already has a
\* field called network_ips.
Nested3 == [id |-> 3, network |-> [ips |-> <<>>]]
Nested4 == [id |-> 1, network |-> [headend |-> [name |-> "x"]], other |-> 2]
Nested5 == [id |-> 5]
Nested6 == [id |-> 6, network_ips |-> <<>>,
            network |-> [ips |-> <<[ip |-> "10.0.0.6/32"]>>]]

NestedRecords == {Svc1, Svc2, Nested3, Nested4, Nested5, Nested6}

\* The lists of nested records given to _process_services.
NestedLists ==
    {<<>>} \cup {<<r>> : r \in NestedRecords}
    \cup {<<r1, r2>> : r1 \in NestedRecords, r2 \in NestedRecords}

\* must_fetch with 'and' for 'or'.
must_fetch_and(cached, use_cache) ==
    cached = None /\ use_cache = FALSE

\* Line 306: the condition under which get_all_services goes to the server.
must_fetch(cached, use_cache) ==
    cached = None \/ use_cache = FALSE

\* get_all_services(use_cache, cache_max_age) on a client holding (lr, le)
\* over disk d at instant t; login_resp and get_resp are the answers of the
\* login endpoint and of GET carbon/services if they are asked.
get_all_services(lr, le, d, t, use_cache, cache_max_age, login_resp, get_resp) ==
    LET services == cache_get(d, t, "services", None, cache_max_age) IN
    IF must_fetch(services, use_cache)
    THEN LET r == do_login(lr, le, d, t, login_resp)
             sent == r.sent \o <<Request("GET", "carbon/services", get_resp)>>
         IN
         IF Raised(r.out) THEN r
         ELSE IF get_resp = TransportError
         THEN [r EXCEPT !.sent = sent, !.out = RequestException]
         ELSE IF get_resp.status = 200
         THEN IF process_services_raises(get_resp.data)
              THEN [r EXCEPT !.sent = sent, !.out = KeyError]
              ELSE LET table == _process_services(get_resp.data) IN
                   [r EXCEPT !.sent = sent,
                             !.disk = cache_store(r.disk, t, "services", table),
                             !.out = Returned(table)]
         ELSE [r EXCEPT !.sent = sent, !.out = ConnectionError(get_resp)]
    ELSE [login_response |-> lr, login_expiry |-> le, disk |-> d,
          sent |-> <<>>, out |-> Returned(services)]

\* The answers the login endpoint can give to an operation that calls
\* do_login only when it fetches.
LoginAnswersOnFetch(fetch, lr, le, t) ==
    IF fetch THEN LoginAnswers(lr, le, t) ELSE {NoAnswer}

\* The answers GET carbon/services can give: the request of line 314 is
\* reached on a fetch whose do_login did not raise.
ServicesAnswers(fetch, lr, le, d, t, login_resp) ==
    IF fetch /\ ~Raised(do_login(lr, le, d, t, login_resp).out)
    THEN GetServicesResponses
    ELSE {NoAnswer}

\* The endpoint of the filtered list: carbon/services with filter[tags]=<tag>.
TagEndpoint(tag) == "carbon/services?filter[tags]=" \o tag

\* get_services_by_tag that stores whatever the server sent, rows or not.
get_services_by_tag_stores_empty(lr, le, d, t, tag, use_cache, cache_max_age, login_resp, get_resp) ==
    LET cache_name == tag_cache_name(tag)
        services == cache_get(d, t, cache_name, None, cache_max_age) IN
    IF services = None \/ use_cache = FALSE
    THEN LET r == do_login(lr, le, d, t, login_resp)
             sent == r.sent \o <<Request("GET", TagEndpoint(tag), get_resp)>>
         IN
         IF Raised(r.out) THEN r
         ELSE IF get_resp = TransportError
         THEN [r EXCEPT !.sent = sent, !.out = RequestException]
         ELSE IF get_resp.status = 200
         THEN LET table == _process_services(get_resp.data) IN
              [r EXCEPT !.sent = sent,
                        !.disk = cache_store(r.disk, t, cache_name, table),
                        !.out = Returned(table)]
         ELSE [r EXCEPT !.sent = sent, !.out = ConnectionError(get_resp)]
    ELSE [login_response |-> lr, login_expiry |-> le, disk |-> d,
          sent |-> <<>>, out |-> Returned(services)]

\* get_services_by_tag(tag, use_cache, cache_max_age), lines 325-359, on a
\* client holding (lr, le) over disk d at instant t; login_resp and get_resp
\* are the answers of the login endpoint and of the filtered GET if asked.
get_services_by_tag(lr, le, d, t, tag, use_cache, cache_max_age, login_resp, get_resp) ==
    LET cache_name == tag_cache_name(tag)
        services == cache_get(d, t, cache_name, None, cache_max_age) IN
    IF services = None \/ use_cache = FALSE
    THEN LET r == do_login(lr, le, d, t, login_resp)
             sent == r.sent \o <<Request("GET", TagEndpoint(tag), get_resp)>>
         IN
         IF Raised(r.out) THEN r
         ELSE IF get_resp = TransportError
         THEN [r EXCEPT !.sent = sent, !.out = RequestException]
         ELSE IF get_resp.status = 200
         THEN IF Len(get_resp.data) > 0
              THEN IF process_services_raises(get_resp.data)
                   THEN [r EXCEPT !.sent = sent, !.out = KeyError]
                   ELSE LET table == _process_services(get_resp.data) IN
                        [r EXCEPT !.sent = sent,
                                  !.disk = cache_store(r.disk, t, cache_name, table),
                                  !.out = Returned(table)]
              ELSE [r EXCEPT !.sent = sent, !.out = Returned(services)]
         ELSE [r EXCEPT !.sent = sent, !.out = ConnectionError(get_resp)]
    ELSE [login_response |-> lr, login_expiry |-> le, disk |-> d,
          sent |-> <<>>, out |-> Returned(services)]

\* Lines 376-380: the loop over the tags.  r carries the client, the requests
\* sent so far and, in parts, what get_services_by_tag returned for each tag
\* so far; tags_services is the frame gathered so far.  A call that raises
\* ends the loop.
RECURSIVE tags_services_loop(_, _, _, _, _, _, _, _)
tags_services_loop(r, t, tags, use_cache, cache_max_age, login_resp, get_resps, tags_services) ==
    IF tags = <<>> THEN [r EXCEPT !.out = Returned(tags_services)]
    ELSE LET s == get_services_by_tag(r.login_response, r.login_expiry, r.disk,
                                      t, Head(tags), use_cache, cache_max_age,
                                      login_resp, Head(get_resps))
             r1 == [login_response |-> s.login_response,
                    login_expiry |-> s.login_expiry, disk |-> s.disk,
                    sent |-> r.sent \o s.sent, out |-> s.out,
                    parts |-> r.parts]
         IN
         IF Raised(s.out) THEN r1
         ELSE tags_services_loop(
                  [r1 EXCEPT !.parts = r.parts \o <<s.out.ret>>],
                  t, Tail(tags), use_cache, cache_max_age, login_resp,
                  Tail(get_resps),
                  IF s.out.ret # None
                  THEN DataFrame(tags_services.rows \o s.out.ret.rows)
                  ELSE tags_services)

\* get_services_by_tags(tags, use_cache, cache_max_age), lines 361-386;
\* get_resps[i] is the answer to the filtered GET of the i-th tag if asked.
get_services_by_tags(lr, le, d, t, tags, use_cache, cache_max_age, login_resp, get_resps) ==
    LET cache_name == tags_cache_name(tags)
        services == cache_get(d, t, cache_name, None, cache_max_age) IN
    IF services = None \/ use_cache = FALSE
    THEN LET r == tags_services_loop(
                      [login_response |-> lr, login_expiry |-> le, disk |-> d,
                       sent |-> <<>>, out |-> Returned(None), parts |-> <<>>],
                      t, tags, use_cache, cache_max_age, login_resp, get_resps,
                      DataFrame(<<>>))
         IN
         IF Raised(r.out) THEN r
         ELSE IF Len(r.out.ret.rows) # 0
         THEN [r EXCEPT !.disk = cache_store(r.disk, t, cache_name, r.out.ret)]
         ELSE [r EXCEPT !.out = Returned(services)]
    ELSE [login_response |-> lr, login_expiry |-> le, disk |-> d,
          sent |-> <<>>, out |-> Returned(services), parts |-> <<>>]

\* get_customer(use_cache), lines 254-278.
get_customer(lr, le, d, t, use_cache, login_resp, get_resp) ==
    LET customer == cache_get(d, t, "customer", None, None) IN
    IF customer = None \/ use_cache = FALSE
    THEN LET r == do_login(lr, le, d, t, login_resp)
             sent == r.sent \o <<Request("GET", "customer", get_resp)>>
         IN
         IF Raised(r.out) THEN r
         ELSE IF get_resp = TransportError
         THEN [r EXCEPT !.sent = sent, !.out = RequestException]
         ELSE IF get_resp.status = 200
         THEN [r EXCEPT !.sent = sent,
                        !.disk = cache_store(r.disk, t, "customer", get_resp.json),
                        !.out = Returned(get_resp.json)]
         ELSE [r EXCEPT !.sent = sent, !.out = ConnectionError(get_resp)]
    ELSE [login_response |-> lr, login_expiry |-> le, disk |-> d,
          sent |-> <<>>, out |-> Returned(customer)]

\* The endpoint of one service: carbon/services/<service_id>.
ServiceEndpoint(service_id) == "carbon/services/" \o ToString(service_id)

\* get_service(service_id, use_cache, cache_max_age), lines 388-411: the
\* request goes through make_get_request (lines 174-190), which sends it on
\* the session as it is.
get_service(lr, le, d, t, service_id, use_cache, cache_max_age, get_resp) ==
    LET cache_name == service_cache_name(service_id)
        service == cache_get(d, t, cache_name, None, cache_max_age)
        r == [login_response |-> lr, login_expiry |-> le, disk |-> d,
              sent |-> <<>>, out |-> Returned(service)]
    IN
    IF service = None \/ use_cache = FALSE
    THEN LET sent == <<Request("GET", ServiceEndpoint(service_id), get_resp)>> IN
         IF get_resp = TransportError
         THEN [r EXCEPT !.sent = sent, !.out = RequestException]
         ELSE IF get_resp.status = 200
         THEN [r EXCEPT !.sent = sent,
                        !.disk = cache_store(d, t, cache_name, get_resp.json),
                        !.out = Returned(get_resp.json)]
         ELSE [r EXCEPT !.sent = sent, !.out = LookupError(service_id)]
    ELSE r

\* The cache_max_age a caller leaves at its default (300 seconds in the
\* code): the largest age of the model.
DefaultCacheMaxAge == Secs(MaxAge)

\* get_service_by_avc that takes the last matching row.
get_service_by_avc_last(lr, le, d, t, avc_id, use_cache, login_resp, get_resp) ==
    LET r == get_all_services(lr, le, d, t, use_cache, DefaultCacheMaxAge,
                              login_resp, get_resp)
        match(row) == upper(row.service_identifier) = upper(avc_id)
    IN
    IF Raised(r.out) THEN r
    ELSE LET records == SelectSeq(r.out.ret.rows, match) IN
         IF records = <<>> THEN [r EXCEPT !.out = IndexError]
         ELSE [r EXCEPT !.out = Returned(records[Len(records)])]

\* get_service_by_avc(avc_id, use_cache), lines 413-423: services.loc[mask]
\* keeps the rows that pass the test, in order, and [0] on the list of
\* the matching records raises IndexError when the list is empty.
get_service_by_avc(lr, le, d, t, avc_id, use_cache, login_resp, get_resp) ==
    LET r == get_all_services(lr, le, d, t, use_cache, DefaultCacheMaxAge,
                              login_resp, get_resp)
        match(row) == upper(row.service_identifier) = upper(avc_id)
    IN
    IF Raised(r.out) THEN r
    ELSE LET records == SelectSeq(r.out.ret.rows, match) IN
         IF records = <<>> THEN [r EXCEPT !.out = IndexError]
         ELSE [r EXCEPT !.out = Returned(records[1])]

\* get_service_by_loc_id(loc_id, use_cache), lines 425-435.
get_service_by_loc_id(lr, le, d, t, loc_id, use_cache, login_resp, get_resp) ==
    LET r == get_all_services(lr, le, d, t, use_cache, DefaultCacheMaxAge,
                              login_resp, get_resp)
        match(row) == upper(row.location_id) = upper(loc_id)
    IN
    IF Raised(r.out) THEN r
    ELSE LET records == SelectSeq(r.out.ret.rows, match) IN
         IF records = <<>> THEN [r EXCEPT !.out = IndexError]
         ELSE [r EXCEPT !.out = Returned(records[1])]

\* netaddr.IPNetwork(...)
IPNetwork(addr) == [network |-> addr]

\* Lines 451-457: the 'ip' of each address becomes an IPNetwork.
service_ip_address(network_ip) ==
    IF "ip" \in DOMAIN network_ip
    THEN [network_ip EXCEPT !.ip = IPNetwork(network_ip.ip)]
    ELSE network_ip

\* get_service_ip_addresses(service_id, use_cache), lines 437-459: [0] on
\* the 'network_ips' column of the matching rows raises KeyError when no
\* row matches.
get_service_ip_addresses(lr, le, d, t, service_id, use_cache, login_resp, get_resp) ==
    LET r == get_all_services(lr, le, d, t, use_cache, DefaultCacheMaxAge,
                              login_resp, get_resp)
        match(row) == row.id = service_id
    IN
    IF Raised(r.out) THEN r
    ELSE LET records == SelectSeq(r.out.ret.rows, match) IN
         IF records = <<>> THEN [r EXCEPT !.out = KeyError]
         ELSE LET network_ips == records[1].network_ips IN
              [r EXCEPT !.out = Returned([i \in 1..Len(network_ips) |->
                                            service_ip_address(network_ips[i])])]

\* The answers the filtered GET can give: the request of line 350 is reached
\* on a fetch whose do_login did not raise.
TagAnswers(tag, fetch, lr, le, d, t, login_resp) ==
    IF fetch /\ ~Raised(do_login(lr, le, d, t, login_resp).out)
    THEN GetTagResponses(tag)
    ELSE {NoAnswer}

\* The answers the filtered GETs of one get_services_by_tags can give, tag
\* by tag: each tag is asked or not as the loop reaches it, and no tag is
\* asked after a call that raised.
RECURSIVE TagsAnswers(_, _, _, _, _, _, _, _)
TagsAnswers(lr, le, d, t, tags, use_cache, cache_max_age, login_resp) ==
    IF tags = <<>> THEN {<<>>}
    ELSE LET tag == Head(tags)
             fetch == must_fetch(cache_get(d, t, tag_cache_name(tag), None,
                                           cache_max_age), use_cache)
         IN UNION {
              LET s == get_services_by_tag(lr, le, d, t, tag, use_cache,
                                           cache_max_age, login_resp, a)
              IN {<<a>> \o rest :
                    rest \in IF Raised(s.out)
                             THEN {[i \in 1..(Len(tags) - 1) |-> NoAnswer]}
                             ELSE TagsAnswers(s.login_response, s.login_expiry,
                                              s.disk, t, Tail(tags), use_cache,
                                              cache_max_age, login_resp)}
              : a \in TagAnswers(tag, fetch, lr, le, d, t, login_resp)}

(* ------------------------------ actions ------------------------------- *)

\* A fresh cache directory and the first client built on it.
Init ==
    /\ now = 1
    /\ disk = get_session([k \in Keys |-> Absent], 1)
    /\ login_response = None
    /\ login_expiry = 0
    /\ last = [op |-> "__init__", args |-> <<>>, at |-> 1, sent |-> <<>>,
               out |-> Returned(None), nth |-> 0]

\* The clock advances between calls.
Tick ==
    /\ now < MaxTime
    /\ now' = now + 1
    /\ UNCHANGED <<disk, login_response, login_expiry, last>>

\* Carbon.do_login()
DoLogin ==
    \E resp \in LoginAnswers(login_response, login_expiry, now) :
        \E r \in {do_login(login_response, login_expiry, disk, now, resp)} :
        /\ login_response' = r.login_response
        /\ login_expiry' = r.login_expiry
        /\ disk' = r.disk
        /\ last' = Call("do_login", <<>>, r.sent, r.out)
        /\ UNCHANGED now

\* Carbon.do_logout()
DoLogout ==
    \E resp \in DeleteLoginResponses :
        \E r \in {do_logout(login_response, login_expiry, resp)} :
        /\ login_response' = r.login_response
        /\ login_expiry' = r.login_expiry
        /\ last' = Call("do_logout", <<>>, r.sent, r.out)
        /\ UNCHANGED <<now, disk>>

\* Carbon.get_access_token()
GetAccessToken ==
    \E resp \in LoginAnswers(login_response, login_expiry, now) :
        \E r \in {get_access_token(login_response, login_expiry, disk, now, resp)} :
        /\ login_response' = r.login_response
        /\ login_expiry' = r.login_expiry
        /\ disk' = r.disk
        /\ last' = Call("get_access_token", <<>>, r.sent, r.out)
        /\ UNCHANGED now

\* __init__ that starts every object logged out.
ConstructLoggedOut ==
    /\ login_response' = None
    /\ login_expiry' = 0
    /\ disk' = get_session(disk, now)
    /\ last' = [op |-> "__init__", args |-> <<>>, at |-> now, sent |-> <<>>,
                out |-> Returned(None), nth |-> 0]
    /\ UNCHANGED now

\* Carbon(...) on the same cache location: lines 62-67 of __init__.
Construct ==
    /\ login_response' = cache_get(disk, now, "login_response", None, None)
    /\ login_expiry' = cache_get(disk, now, "login_expiry", 0, None)
    /\ disk' = get_session(disk, now)
    /\ last' = [op |-> "__init__", args |-> <<>>, at |-> now, sent |-> <<>>,
                out |-> Returned(None), nth |-> 0]
    /\ UNCHANGED now

\* The default_value arguments tried for a key.
Defaults(key) == IF key = "login_expiry" THEN {0} ELSE {None, Sentinel}

\* The max_age arguments tried.
MaxAges == {None} \cup {Secs(n) : n \in 0..MaxAge}

\* Carbon.get_all_services(use_cache, cache_max_age)
GetAllServices ==
    \E use_cache \in BOOLEAN : \E n \in 0..MaxAge :
    LET fetch == must_fetch(cache_get(disk, now, "services", None, Secs(n)),
                            use_cache) IN
    \E login_resp \in LoginAnswersOnFetch(fetch, login_response, login_expiry, now) :
    \E get_resp \in ServicesAnswers(fetch, login_response, login_expiry, disk,
                                    now, login_resp) :
        \E r \in {get_all_services(login_response, login_expiry, disk, now,
                                  use_cache, Secs(n), login_resp, get_resp)} :
        /\ login_response' = r.login_response
        /\ login_expiry' = r.login_expiry
        /\ disk' = r.disk
        /\ last' = Call("get_all_services",
                        [use_cache |-> use_cache, cache_max_age |-> n],
                        r.sent, r.out)
        /\ UNCHANGED now

\* Carbon.get_services_by_tag(tag, use_cache, cache_max_age)
GetServicesByTag ==
    \E tag \in {"a"} : \E use_cache \in BOOLEAN : \E n \in {MaxAge} :
    LET fetch == must_fetch(cache_get(disk, now, tag_cache_name(tag), None,
                                      Secs(n)), use_cache) IN
    \E login_resp \in LoginAnswersOnFetch(fetch, login_response, login_expiry, now) :
    \E get_resp \in TagAnswers(tag, fetch, login_response, login_expiry, disk,
                               now, login_resp) :
        \E r \in {get_services_by_tag(login_response, login_expiry, disk, now,
                                     tag, use_cache, Secs(n), login_resp,
                                     get_resp)} :
        /\ login_response' = r.login_response
        /\ login_expiry' = r.login_expiry
        /\ disk' = r.disk
        /\ last' = Call("get_services_by_tag",
                        [tag |-> tag, use_cache |-> use_cache,
                         cache_max_age |-> n],
                        r.sent, r.out)
        /\ UNCHANGED now

\* Carbon.get_services_by_tags(tags, use_cache, cache_max_age) with tags
\* one of lists
GetServicesByTagsOf(lists) ==
    \E tags \in lists : \E use_cache \in BOOLEAN : \E n \in {MaxAge} :
    LET fetch == /\ must_fetch(cache_get(disk, now, tags_cache_name(tags),
                                         None, Secs(n)), use_cache)
                 /\ \E i \in 1..Len(tags) :
                       must_fetch(cache_get(disk, now, tag_cache_name(tags[i]),
                                            None, Secs(n)), use_cache)
        loop == must_fetch(cache_get(disk, now, tags_cache_name(tags), None,
                                     Secs(n)), use_cache)
    IN
    \E login_resp \in LoginAnswersOnFetch(fetch, login_response, login_expiry, now) :
    \E get_resps \in IF loop
                     THEN TagsAnswers(login_response, login_expiry, disk, now,
                                      tags, use_cache, Secs(n), login_resp)
                     ELSE {[i \in 1..Len(tags) |-> NoAnswer]} :
        \E r \in {get_services_by_tags(login_response, login_expiry, disk, now,
                                      tags, use_cache, Secs(n), login_resp,
                                      get_resps)} :
        /\ login_response' = r.login_response
        /\ login_expiry' = r.login_expiry
        /\ disk' = r.disk
        /\ last' = Call("get_services_by_tags",
                        [tags |-> tags, use_cache |-> use_cache,
                         cache_max_age |-> n, tag_services |-> r.parts],
                        r.sent, r.out)
        /\ UNCHANGED now

\* Carbon.get_customer(use_cache)
GetCustomer ==
    \E use_cache \in BOOLEAN :
    LET fetch == must_fetch(cache_get(disk, now, "customer", None, None),
                            use_cache) IN
    \E login_resp \in LoginAnswersOnFetch(fetch, login_response, login_expiry, now) :
    \E get_resp \in IF fetch /\ ~Raised(do_login(login_response, login_expiry,
                                                  disk, now, login_resp).out)
                    THEN GetCustomerResponses ELSE {NoAnswer} :
        \E r \in {get_customer(login_response, login_expiry, disk, now,
                              use_cache, login_resp, get_resp)} :
        /\ login_response' = r.login_response
        /\ login_expiry' = r.login_expiry
        /\ disk' = r.disk
        /\ last' = Call("get_customer", [use_cache |-> use_cache], r.sent, r.out)
        /\ UNCHANGED now

\* Carbon.get_service(service_id, use_cache), cache_max_age at its default
GetService ==
    \E service_id \in ServiceIds : \E use_cache \in BOOLEAN :
    LET fetch == must_fetch(cache_get(disk, now, service_cache_name(service_id),
                                      None, DefaultCacheMaxAge), use_cache) IN
    \E get_resp \in IF fetch THEN GetServiceResponses(service_id)
                    ELSE {NoAnswer} :
        \E r \in {get_service(login_response, login_expiry, disk, now,
                             service_id, use_cache, DefaultCacheMaxAge,
                             get_resp)} :
        /\ disk' = r.disk
        /\ last' = Call("get_service",
                        [service_id |-> service_id, use_cache |-> use_cache],
                        r.sent, r.out)
        /\ UNCHANGED <<now, login_response, login_expiry>>

\* The AVC ids and location ids a caller looks up: one that the services
\* carry in another letter case, and one that no service carries.
AvcIds == {<<"a", "b">>, <<"b">>}
LocIds == {<<"l", "1">>, <<"l">>}

\* Carbon.get_service_by_avc(avc_id, use_cache)
GetServiceByAvc ==
    \E avc_id \in AvcIds : \E use_cache \in BOOLEAN :
    LET fetch == must_fetch(cache_get(disk, now, "services", None,
                                      DefaultCacheMaxAge), use_cache) IN
    \E login_resp \in LoginAnswersOnFetch(fetch, login_response, login_expiry, now) :
    \E get_resp \in ServicesAnswers(fetch, login_response, login_expiry, disk,
                                    now, login_resp) :
        \E r \in {get_service_by_avc(login_response, login_expiry, disk, now,
                                    avc_id, use_cache, login_resp, get_resp)} :
        /\ login_response' = r.login_response
        /\ login_expiry' = r.login_expiry
        /\ disk' = r.disk
        /\ last' = Call("get_service_by_avc",
                        [avc_id |-> avc_id, use_cache |-> use_cache],
                        r.sent, r.out)
        /\ UNCHANGED now

\* Carbon.get_service_by_loc_id(loc_id, use_cache)
GetServiceByLocId ==
    \E loc_id \in LocIds : \E use_cache \in BOOLEAN :
    LET fetch == must_fetch(cache_get(disk, now, "services", None,
                                      DefaultCacheMaxAge), use_cache) IN
    \E login_resp \in LoginAnswersOnFetch(fetch, login_response, login_expiry, now) :
    \E get_resp \in ServicesAnswers(fetch, login_response, login_expiry, disk,
                                    now, login_resp) :
        \E r \in {get_service_by_loc_id(login_response, login_expiry, disk, now,
                                       loc_id, use_cache, login_resp, get_resp)} :
        /\ login_response' = r.login_response
        /\ login_expiry' = r.login_expiry
        /\ disk' = r.disk
        /\ last' = Call("get_service_by_loc_id",
                        [loc_id |-> loc_id, use_cache |-> use_cache],
                        r.sent, r.out)
        /\ UNCHANGED now

\* Carbon.get_service_ip_addresses(service_id, use_cache)
GetServiceIpAddresses ==
    \E service_id \in ServiceIds : \E use_cache \in BOOLEAN :
    LET fetch == must_fetch(cache_get(disk, now, "services", None,
                                      DefaultCacheMaxAge), use_cache) IN
    \E login_resp \in LoginAnswersOnFetch(fetch, login_response, login_expiry, now) :
    \E get_resp \in ServicesAnswers(fetch, login_response, login_expiry, disk,
                                    now, login_resp) :
        \E r \in {get_service_ip_addresses(login_response, login_expiry, disk,
                                          now, service_id, use_cache,
                                          login_resp, get_resp)} :
        /\ login_response' = r.login_response
        /\ login_expiry' = r.login_expiry
        /\ disk' = r.disk
        /\ last' = Call("get_service_ip_addresses",
                        [service_id |-> service_id, use_cache |-> use_cache],
                        r.sent, r.out)
        /\ UNCHANGED now

\* The keys and values of the direct calls of cache_store / cache_get.
CacheKeys == {"login_expiry", "services"}
StoreValues(key, t) ==
    IF key = "login_expiry" THEN {t + 1} ELSE {ProcessedServices[<<Svc1>>]}

\* Carbon.cache_get(key, default_value, max_age)
CacheGet ==
    \E key \in CacheKeys : \E default_value \in Defaults(key) :
    \E max_age \in {None, DefaultCacheMaxAge} :
        /\ last' = Call("cache_get",
                        [key |-> key, default_value |-> default_value,
                         max_age |-> max_age],
                        <<>>,
                        IF cache_get_raises(disk, key) THEN UnpicklingError
                        ELSE Returned(cache_get(disk, now, key, default_value,
                                                max_age)))
        /\ UNCHANGED <<now, disk, login_response, login_expiry>>

\* Carbon.cache_store(key, value)
CacheStore ==
    \E key \in CacheKeys : \E value \in StoreValues(key, now) :
        /\ disk' = IF cache_store_raises(disk, key) THEN disk
                   ELSE cache_store(disk, now, key, value)
        /\ last' = Call("cache_store", [key |-> key, value |-> value], <<>>,
                        IF cache_store_raises(disk, key) THEN UnpicklingError
                        ELSE Returned(value))
        /\ UNCHANGED <<now, login_response, login_expiry>>

\* Carbon.cache_store(key, value) stopped between open('wb') (line 106) and
\* the end of pickle.dump (line 113): the file is left empty or with the
\* first bytes of the pickle.
InterruptedStore ==
    \E key \in CacheKeys : \E value \in StoreValues(key, now) :
    \E left \in {Empty, Corrupt} :
        /\ ~cache_store_raises(disk, key)
        /\ disk' = [disk EXCEPT ![key] = left]
        /\ last' = Call("cache_store", [key |-> key, value |-> value], <<>>,
                        KeyboardInterrupt)
        /\ UNCHANGED <<now, login_response, login_expiry>>

\* Carbon._process_services(services)
ProcessServices ==
    \E services \in NestedLists :
        /\ last' = Call("_process_services", [services |-> services], <<>>,
                        IF process_services_raises(services) THEN KeyError
                        ELSE Returned(_process_services(services)))
        /\ UNCHANGED <<now, disk, login_response, login_expiry>>

Next ==
    \/ Tick
    \/ Construct
    \/ DoLogin
    \/ DoLogout
    \/ GetAccessToken
    \/ GetAllServices

Spec == Init /\ [][Next]_vars

\* The client used for its tag queries only.
NextTags ==
    \/ Tick
    \/ GetServicesByTag
    \/ GetServicesByTagsOf(TagLists)

SpecTags == Init /\ [][NextTags]_vars

\* The object has been used for the operations ops only.
Only(ops) == last.op \in {"__init__"} \cup ops

\* A client used for one kind of the operations that fetch and cache: the
\* customer, the list of all services, the tag queries, or the detail of one
\* service (with the logins its caller makes, as get_service makes none).
NextRemote ==
    \/ Tick
    \/ Only({"get_customer"}) /\ GetCustomer
    \/ Only({"get_all_services"}) /\ GetAllServices
    \/ Only({"get_services_by_tag", "get_services_by_tags"}) /\ GetServicesByTag
    \/ /\ Only({"get_services_by_tag", "get_services_by_tags"})
       /\ GetServicesByTagsOf({<<"a", "b">>})
    \/ Only({"get_service", "do_login"}) /\ GetService
    \/ Only({"get_service", "do_login"}) /\ DoLogin

SpecRemote == Init /\ [][NextRemote]_vars

\* The cache used directly, with stores that can be interrupted.
NextCache ==
    \/ Tick
    \/ CacheStore
    \/ InterruptedStore
    \/ CacheGet

SpecCache == Init /\ [][NextCache]_vars

\* The normalisation of service lists on its own.
NextFlatten ==
    \/ Tick
    \/ ProcessServices

SpecFlatten == Init /\ [][NextFlatten]_vars

\* The client used for its lookups of one service only.
NextLookup ==
    \/ Tick
    \/ GetService
    \/ GetServiceByAvc
    \/ GetServiceByLocId
    \/ GetServiceIpAddresses

SpecLookup == Init /\ [][NextLookup]_vars

(* ------------------------- reading the history ------------------------ *)

\* The requests of a call to one endpoint.
Requests(sent, method, endpoint) ==
    {i \in 1..Len(sent) : sent[i].method = method /\ sent[i].endpoint = endpoint}

Posts(sent) == Cardinality(Requests(sent, "POST", "login"))
Gets(sent) == Cardinality(Requests(sent, "GET", "carbon/services"))

\* The answer the call got to its request to an endpoint.
Answer(sent, method, endpoint) ==
    sent[CHOOSE i \in Requests(sent, method, endpoint) : TRUE].response

\* The answer is an HTTP response with a status other than 200.
ErrorStatus(resp) == resp # TransportError /\ resp.status # 200

\* The login request of the call failed.
LoginFailed(sent) ==
    /\ Posts(sent) = 1
    /\ LET resp == Answer(sent, "POST", "login") IN
       resp = TransportError \/ resp.status # 200

\* The persisted 'login_expiry' marker says the session is live at t.
SessionLive(d, t) ==
    d["login_expiry"] # Absent /\ t < d["login_expiry"].value

\* The step is a call of op on the client.
Calls(op) == now' = now /\ last'.op = op

(* ------------------------------- claims ------------------------------- *)

\* C1: a do_login() / get_access_token() on a client that holds a login
\* response and whose token is still valid (now < login_expiry) sends no
\* request, changes nothing and hands back the held response (its token);
\* and a call that takes a logged-out client to a held login sent exactly
\* one POST login.
C1_IdempotentLogin ==
    [][(Calls("do_login") \/ Calls("get_access_token")) =>
        /\ (login_response # None /\ now < login_expiry) =>
              /\ last'.sent = <<>>
              /\ login_response' = login_response
              /\ login_expiry' = login_expiry
              /\ disk' = disk
              /\ last'.out = IF last'.op = "do_login"
                             THEN Returned(login_response)
                             ELSE Returned(login_response.accessToken)
        /\ (login_response = None /\ login_response' # None) =>
              /\ Posts(last'.sent) = 1
              /\ Len(last'.sent) = 1
              /\ now < login_expiry'
      ]_vars

\* C1 witness: a second or later do_login() in the validity window came
\* back with the held response and without a request.
C1_Witness ==
    /\ last.op = "do_login"
    /\ last.nth = 2
    /\ last.sent = <<>>
    /\ login_response # None
    /\ last.at < login_expiry
    /\ last.out = Returned(login_response)

\* C2: a do_login() in any state other than (holding a login response and
\* now < login_expiry) sends a login request and on success sets
\* login_expiry to now + expiresIn; get_access_token() never hands back a
\* token whose expiry instant has passed.
C2_ReloginOnExpiry ==
    [][/\ Calls("do_login") =>
           (~(login_response # None /\ now < login_expiry) =>
               /\ Posts(last'.sent) = 1
               /\ ~Raised(last'.out) =>
                     login_expiry' = now + last'.out.ret.expiresIn)
       /\ (Calls("get_access_token") /\ ~Raised(last'.out)) =>
              now < last'.out.ret.exp
      ]_vars

\* C3: while the persisted 'login_expiry' marker says the session has lapsed
\* (now >= its value), cache_get of every other key returns the default,
\* whatever the age of the entry and whatever max_age.
C3_AuthGatedCache ==
    \A key \in Keys \ {"login_expiry"} :
    \A default_value \in Defaults(key) : \A max_age \in MaxAges :
        (disk["login_expiry"] # Absent /\ now >= disk["login_expiry"].value)
        => cache_get(disk, now, key, default_value, max_age) = default_value

\* C3 witness: get_all_services(use_cache=True) found a 'services' entry
\* younger than cache_max_age, the session had lapsed, and it went to the
\* server (the fetch failed, so the entry is still the one it refused).
C3_Witness ==
    /\ last.op = "get_all_services"
    /\ last.at = now
    /\ last.args.use_cache
    /\ disk["services"] # Absent
    /\ disk["services"].time + last.args.cache_max_age > now
    /\ disk["login_expiry"] # Absent
    /\ now >= disk["login_expiry"].value
    /\ Gets(last.sent) = 1
    /\ Raised(last.out)

\* C4: after do_logout() returns, the in-memory session is logged out and
\* so is the persisted one: a client constructed now reads no login
\* response and no login expiry from the cache.
C4_LogoutClearsPersisted ==
    (last.op = "do_logout" /\ ~Raised(last.out)) =>
        /\ login_response = None
        /\ login_expiry = 0
        /\ cache_get(disk, now, "login_response", None, None) = None
        /\ cache_get(disk, now, "login_expiry", 0, None) = 0

C6_FailedLoginStaysLoggedOut ==
    [][(now' = now /\ Posts(last'.sent) = 1
          /\ ErrorStatus(Answer(last'.sent, "POST", "login"))) =>
        /\ last'.out.error = "ConnectionError"
        /\ last'.out.status = Answer(last'.sent, "POST", "login").status
        /\ last'.out.reason = Answer(last'.sent, "POST", "login").reason
        /\ login_response = None
        /\ login_response' = None
        /\ login_expiry' = login_expiry
        /\ disk' = disk
      ]_vars

\* C6 witness: do_login() was refused with 401 on a cache that has never
\* held a login.
C6_Witness ==
    /\ last.op = "do_login"
    /\ Posts(last.sent) = 1
    /\ Raised(last.out)
    /\ last.out.error = "ConnectionError"
    /\ last.out.status = 401
    /\ login_response = None
    /\ disk["login_response"] = Absent
    /\ disk["login_expiry"] = Absent

\* C7: after do_logout(), whatever the DELETE came to (a success status, an
\* error status or a transport failure), login_response is None and
\* login_expiry is 0.
C7_LogoutAlwaysClears ==
    last.op = "do_logout" => (login_response = None /\ login_expiry = 0)

C9_NotOlderServed ==
    \A key \in Keys : \A default_value \in Defaults(key) : \A T \in 0..MaxAge :
        (disk[key] # Absent /\ SessionLive(disk, now)
           /\ now - disk[key].time <= T) =>
            cache_get(disk, now, key, default_value, Secs(T)) = disk[key].value

\* The 'services' entry get_all_services would be served at the call.
ServicesMiss(max_age) ==
    cache_get(disk, now, "services", None, Secs(max_age)) = None

TagGets(sent, tag) == Cardinality(Requests(sent, "GET", TagEndpoint(tag)))

\* The server answered 200 with no rows.
ZeroRows(resp) == resp.status = 200 /\ resp.data = <<>>

\* The call asked the server for the tag and got no rows.
GotZeroRows(sent, tag) ==
    /\ TagGets(sent, tag) = 1
    /\ ZeroRows(Answer(sent, "GET", TagEndpoint(tag)))

\* C11: a get_services_by_tag(tag) that gets zero rows from the server leaves
\* the entry 'services_tag_<tag>' as it was; no entry of a tag ever holds an
\* empty table; and a get_services_by_tag that returns without asking the
\* server returns a table with rows, so an empty result always comes from a
\* fetch of that call.
C11_EmptyTagNotCached ==
    [][Calls("get_services_by_tag") =>
         LET tag == last'.args.tag
             key == tag_cache_name(tag)
         IN
         /\ GotZeroRows(last'.sent, tag) => disk'[key] = disk[key]
         /\ \A g \in Tags :
               disk'[tag_cache_name(g)] # Absent
                   => Len(disk'[tag_cache_name(g)].value.rows) > 0
         /\ (TagGets(last'.sent, tag) = 0 /\ ~Raised(last'.out))
               => /\ last'.out.ret # None
                  /\ Len(last'.out.ret.rows) > 0
      ]_vars

\* A later call on a logged-in client asks the server again for a tag that
\* has no entry, gets zero rows again, returns None and stores nothing.
C11_Witness ==
    /\ last.op = "get_services_by_tag"
    /\ last.nth = 2
    /\ last.args.use_cache
    /\ Posts(last.sent) = 0
    /\ GotZeroRows(last.sent, last.args.tag)
    /\ last.out = Returned(None)
    /\ disk[tag_cache_name(last.args.tag)] = Absent

\* The rows of the results that are tables, in the order of the results.
RECURSIVE ConcatRows(_)
ConcatRows(results) ==
    IF results = <<>> THEN <<>>
    ELSE (IF Head(results) # None THEN Head(results).rows ELSE <<>>)
         \o ConcatRows(Tail(results))

\* C12: a get_services_by_tags(tags) that finds no entry to serve and whose
\* get_services_by_tag calls all return hands back the rows of their results
\* that are tables, in the order of the tags and without removing repeated
\* records; it stores that table under 'services_tags_<joined tags>' when it
\* has rows, and stores nothing and returns the empty result None when it
\* has none.
C12_TagAggregation ==
    [][Calls("get_services_by_tags") =>
         LET a == last'.args
             key == tags_cache_name(a.tags)
             rows == ConcatRows(a.tag_services)
         IN
         Len(a.tag_services) = Len(a.tags) =>
             IF rows # <<>>
             THEN /\ last'.out = Returned(DataFrame(rows))
                  /\ disk'[key] = [time |-> now, value |-> DataFrame(rows)]
             ELSE /\ last'.out = Returned(None)
                  /\ disk'[key] = disk[key]
      ]_vars

\* The rows the server sent in this call for the tags, flattened, in the
\* order of the tags.
RECURSIVE FreshRows(_, _)
FreshRows(sent, tags) ==
    IF tags = <<>> THEN <<>>
    ELSE _process_services(Answer(sent, "GET", TagEndpoint(Head(tags))).data).rows
         \o FreshRows(sent, Tail(tags))

\* C19: a get_services_by_tag / get_services_by_tags called with
\* use_cache=False that returns hands back the flattened rows the server sent
\* during that call, or None when the server sent no rows; what the cache
\* held before the call plays no part.
C19_BypassCacheFresh ==
    [][/\ (Calls("get_services_by_tag") /\ ~last'.args.use_cache
             /\ ~Raised(last'.out))
            => LET rows == FreshRows(last'.sent, <<last'.args.tag>>) IN
               last'.out = IF rows = <<>> THEN Returned(None)
                           ELSE Returned(DataFrame(rows))
       /\ (Calls("get_services_by_tags") /\ ~last'.args.use_cache
             /\ ~Raised(last'.out))
            => LET rows == FreshRows(last'.sent, last'.args.tags) IN
               last'.out = IF rows = <<>> THEN Returned(None)
                           ELSE Returned(DataFrame(rows))
      ]_vars

\* C20: a get_services_by_tags call writes the entry of its own tag list and
\* leaves the entry of every other tag list as it was, so that an entry is
\* only ever served to calls with the tag list that stored it; and the key
\* of a tag list is the key of no single tag, the key of no single service
\* and not 'services'.
C20_KeysSeparate ==
    [][Calls("get_services_by_tags") =>
         /\ \A other \in TagLists \ {last'.args.tags} :
               disk'[tags_cache_name(other)] = disk[tags_cache_name(other)]
         /\ \A tags \in TagLists :
               tags_cache_name(tags)
                   \notin {"services"} \cup {tag_cache_name(g) : g \in Tags}
                           \cup {service_cache_name(service_id) :
                                   service_id \in ServiceIds}
      ]_vars

\* The operations that read resources of the customer.
ResourceOps ==
    {"get_customer", "get_all_services", "get_services_by_tag",
     "get_services_by_tags", "get_service", "get_service_by_avc",
     "get_service_by_loc_id", "get_service_ip_addresses"}

\* The resource requests of a call.
ResourceGets(sent) == {i \in 1..Len(sent) : sent[i].method = "GET"}

\* C13: a resource operation that sends a GET does so on a client that is
\* logged in (it holds a login response) and whose session is valid (the
\* clock is before login_expiry); no GET leaves a logged-out client.
C13_TokenBeforeRemote ==
    [][(now' = now /\ last'.op \in ResourceOps
          /\ ResourceGets(last'.sent) # {})
         => /\ login_response' # None
            /\ now < login_expiry'
      ]_vars

\* The answer is an HTTP response whose status is not a 2xx one.
Non2xx(resp) == "status" \in DOMAIN resp /\ resp.status \notin 200..299

\* The cache entry of the operation of a call.
EntryOf(call) ==
    IF call.op = "get_customer" THEN "customer"
    ELSE IF call.op = "get_all_services" THEN "services"
    ELSE IF call.op = "get_services_by_tag" THEN tag_cache_name(call.args.tag)
    ELSE IF call.op = "get_services_by_tags" THEN tags_cache_name(call.args.tags)
    ELSE service_cache_name(call.args.service_id)

\* The operations that fetch a resource and cache it.
FetchOps ==
    {"get_customer", "get_all_services", "get_services_by_tag",
     "get_services_by_tags", "get_service"}

\* C14: when a request of get_customer, get_all_services,
\* get_services_by_tag, get_services_by_tags or get_service is answered with
\* a status that is not 2xx, the operation raises, that request is the last
\* one it sends (nothing is tried again), and the cache entry of the
\* operation is left as it was.
C14_FailuresSurfaced ==
    [][(now' = now /\ last'.op \in FetchOps)
         => \A i \in 1..Len(last'.sent) :
                Non2xx(last'.sent[i].response)
                    => /\ Raised(last'.out)
                       /\ i = Len(last'.sent)
                       /\ disk'[EntryOf(last')] = disk[EntryOf(last')]
      ]_vars

\* A call with use_cache=False on a client whose entry is served by the
\* cache got an error status: it raised and the entry is still there.
C14_Witness ==
    /\ last.op \in FetchOps
    /\ ~last.args.use_cache
    /\ last.sent # <<>>
    /\ Non2xx(last.sent[Len(last.sent)].response)
    /\ last.sent[Len(last.sent)].method = "GET"
    /\ Raised(last.out)
    /\ cache_get(disk, now, EntryOf(last), None, None) # None

\* The outcome is the not-found error and names the key.
NotFound(out, key) ==
    /\ Raised(out)
    /\ out.error = "LookupError"
    /\ \E f \in DOMAIN out \ {"error"} : out[f] = key

\* The call obtained the table of all services: no request of it failed and
\* the server did not send an empty list.
GotTable(sent) ==
    \A i \in 1..Len(sent) :
        /\ sent[i].response # TransportError
        /\ sent[i].response.status = 200
        /\ sent[i].method = "GET" => sent[i].response.data # <<>>

\* No row of the table has field equal to value (letter case set aside when
\* fold is TRUE).
NoRow(table, field, value, fold) ==
    \A i \in 1..Len(table.rows) :
        IF fold THEN upper(table.rows[i][field]) # upper(value)
        ELSE table.rows[i][field] # value

\* C15: a lookup that matches no record raises the not-found error naming
\* the key that was looked up: get_service(id) when the server answers 404,
\* get_service_ip_addresses(id), get_service_by_avc(v) and
\* get_service_by_loc_id(v) when no row of the table of all services matches.
C15_NoMatchNotFound ==
    [][LET a == last'.args
           table == disk'["services"].value
       IN
       /\ (Calls("get_service") /\ last'.sent # <<>>
             /\ last'.sent[1].response.status = 404)
            => NotFound(last'.out, a.service_id)
       /\ (Calls("get_service_ip_addresses") /\ GotTable(last'.sent)
             /\ NoRow(table, "id", a.service_id, FALSE))
            => NotFound(last'.out, a.service_id)
       /\ (Calls("get_service_by_avc") /\ GotTable(last'.sent)
             /\ NoRow(table, "service_identifier", a.avc_id, TRUE))
            => NotFound(last'.out, a.avc_id)
       /\ (Calls("get_service_by_loc_id") /\ GotTable(last'.sent)
             /\ NoRow(table, "location_id", a.loc_id, TRUE))
            => NotFound(last'.out, a.loc_id)
      ]_vars

\* The pairs of a letter and its capital.
CasePairs == {{"a", "A"}, {"b", "B"}, {"l", "L"}}

\* The two strings are equal when letter case is set aside.
SameIgnoringCase(s1, s2) ==
    /\ Len(s1) = Len(s2)
    /\ \A i \in 1..Len(s1) : s1[i] = s2[i] \/ {s1[i], s2[i]} \in CasePairs

\* The record is the first row of the table whose field equals value when
\* letter case is set aside.
FirstMatch(record, table, field, value) ==
    \E i \in 1..Len(table.rows) :
        /\ SameIgnoringCase(table.rows[i][field], value)
        /\ \A j \in 1..(i - 1) : ~SameIgnoringCase(table.rows[j][field], value)
        /\ record = table.rows[i]

\* Some row of the table has field equal to value, letter case set aside.
SomeMatch(table, field, value) ==
    \E i \in 1..Len(table.rows) : SameIgnoringCase(table.rows[i][field], value)

\* C16: get_service_by_avc(v) / get_service_by_loc_id(v) returns a record
\* exactly when it obtains the table of all services and some row of it has
\* service_identifier / location_id equal to v with letter case set aside,
\* and the record it returns is the first such row in table order.
C16_FirstMatchIgnoringCase ==
    [][LET a == last'.args
           table == disk'["services"].value
       IN
       /\ Calls("get_service_by_avc")
            => /\ ~Raised(last'.out)
                    => FirstMatch(last'.out.ret, table, "service_identifier",
                                  a.avc_id)
               /\ (GotTable(last'.sent)
                     /\ SomeMatch(table, "service_identifier", a.avc_id))
                    => ~Raised(last'.out)
       /\ Calls("get_service_by_loc_id")
            => /\ ~Raised(last'.out)
                    => FirstMatch(last'.out.ret, table, "location_id", a.loc_id)
               /\ (GotTable(last'.sent)
                     /\ SomeMatch(table, "location_id", a.loc_id))
                    => ~Raised(last'.out)
      ]_vars

\* get_service_by_avc('ab') on a table whose two rows carry the AVC as 'Ab'
\* and 'aB' returned the first of them.
C16_Witness ==
    /\ last.op = "get_service_by_avc"
    /\ last.args.avc_id = <<"a", "b">>
    /\ ~Raised(last.out)
    /\ Len(disk["services"].value.rows) = 2
    /\ last.out.ret = disk["services"].value.rows[1]
    /\ last.out.ret.service_identifier = <<"A", "b">>
    /\ disk["services"].value.rows[2].service_identifier = <<"a", "B">>

\* The flat record of one nested record, as the claim words it.
FlatOf(row, rec) ==
    /\ "network" \notin DOMAIN row
    /\ "network_headend" \notin DOMAIN row
    /\ \A k \in DOMAIN rec \ {"network"} : k \in DOMAIN row /\ row[k] = rec[k]
    /\ "network" \in DOMAIN rec
         => /\ \A f \in DOMAIN rec.network \ {"headend"} :
                  /\ ("network_" \o f) \in DOMAIN row
                  /\ row["network_" \o f] = rec.network[f]
            /\ "headend" \in DOMAIN rec.network
                 => \A g \in DOMAIN rec.network.headend :
                       /\ ("headend_" \o g) \in DOMAIN row
                       /\ row["headend_" \o g] = rec.network.headend[g]

\* C17: _process_services on any list of nested records returns a table
\* with one row per record, in the order of the list, each row the flat
\* record of its nested record: network.f as network_f, network.headend.g
\* as headend_g, the other top-level fields as they were, and neither
\* 'network' nor 'network_headend' left.
C17_Flattening ==
    last.op = "_process_services"
        => /\ ~Raised(last.out)
           /\ Len(last.out.ret.rows) = Len(last.args.services)
           /\ \A i \in 1..Len(last.args.services) :
                 FlatOf(last.out.ret.rows[i], last.args.services[i])

\* C18: a cache_get or cache_store on a key whose file exists but is empty
\* or holds no complete pickle raises and leaves the file as it is: it
\* neither returns a value nor writes a new store.
C18_CorruptStoreFatal ==
    [][((Calls("cache_get") \/ Calls("cache_store"))
          /\ last'.out # KeyboardInterrupt
          /\ disk[last'.args.key] \in {Empty, Corrupt})
         => /\ Raised(last'.out)
            /\ disk'[last'.args.key] = disk[last'.args.key]
      ]_vars

TypeOK ==
    /\ now \in 1..MaxTime
    /\ login_expiry \in 0..(MaxTime + MaxExpiresIn)
    /\ DOMAIN disk = Keys
====
